---- MODULE Spec2Model ----
(***************************************************************************)
(* Margin calculator (src/main.py): the MarginPosition dataclass, its      *)
(* derived accessors, and the main() script that reads five widgets,       *)
(* builds the base position, shows its metrics and fills the leverage      *)
(* sensitivity table.                                                      *)
(*                                                                         *)
(* Numbers.  Python floats are modelled by exact rationals <<n, d>> in     *)
(* lowest terms with d > 0.  Binary64 rounding is not modelled: every      *)
(* equality below is an equality of the real-number values of the code's   *)
(* expressions.  A division by zero raises ZeroDivisionError in Python;    *)
(* the raised exception is the value <<0, 0>> and propagates through the   *)
(* enclosing expression.                                                   *)
(***************************************************************************)
EXTENDS Integers, Sequences, FiniteSets, TLC

VARIABLES pc, amount, ltv, max_lev, leverage, collateral_rate, borrow_rate,
          position, metrics, leverages, i, test_pos, sensitivity_data, df,
          out, error

vars == <<pc, amount, ltv, max_lev, leverage, collateral_rate, borrow_rate,
          position, metrics, leverages, i, test_pos, sensitivity_data, df,
          out, error>>

(***************************************************************************)
(* Bounds of the model                                                     *)
(***************************************************************************)
\* number of +step clicks on the Amount widget from its min_value
AmountSteps == 1
\* number of +-step clicks on the LTV widget around its default value
LtvSteps == 6
\* number of -step clicks on the Leverage widget from its default value
LevSteps == 1
\* number of +-step clicks on each rate widget around its default value
RateSteps == 0
\* direct constructor calls: amounts -1 .. LibMaxAmount
LibMaxAmount == 2
\* direct constructor calls: ltv on the grid k / LibLtvDen, k in -1 .. LibLtvDen + 1
LibLtvDen == 5
\* direct constructor calls: leverage on the grid k / 2, k in 0 .. LibLevHalves
LibLevHalves == 4
\* direct constructor calls: rates on the grid k / LibRateDen, k in 0 .. LibRateDen
LibRateDen == 1

(***************************************************************************)
(* Float arithmetic, as exact rationals                                    *)
(***************************************************************************)
Abs(x) == IF x < 0 THEN -x ELSE x

RECURSIVE GCD(_, _)
GCD(a, b) == IF b = 0 THEN a ELSE GCD(b, a % b)

\* the number n / d (d # 0), in lowest terms with a positive denominator
Rat(n, d) ==
  LET s == IF d < 0 THEN -1 ELSE 1
      g == GCD(Abs(n), Abs(d))
  IN  <<(s * n) \div g, (s * d) \div g>>

\* a float literal / an int used in float arithmetic
Num(k) == <<k, 1>>

\* the exception raised by a division by zero
ZeroDivisionError == <<0, 0>>

\* the evaluation of x raised
Raised(x) == x[2] = 0

\* the sum and the difference over the least common denominator
Add(a, b) ==
  IF Raised(a) \/ Raised(b) THEN ZeroDivisionError
  ELSE LET g == GCD(a[2], b[2])
       IN  Rat(a[1] * (b[2] \div g) + b[1] * (a[2] \div g), (a[2] \div g) * b[2])

Sub(a, b) ==
  IF Raised(a) \/ Raised(b) THEN ZeroDivisionError
  ELSE LET g == GCD(a[2], b[2])
       IN  Rat(a[1] * (b[2] \div g) - b[1] * (a[2] \div g), (a[2] \div g) * b[2])

\* the product, common factors cancelled before multiplying
Mul(a, b) ==
  IF Raised(a) \/ Raised(b) THEN ZeroDivisionError
  ELSE IF a[1] = 0 \/ b[1] = 0 THEN <<0, 1>>
  ELSE LET g1 == GCD(Abs(a[1]), b[2])
           g2 == GCD(Abs(b[1]), a[2])
       IN  Rat((a[1] \div g1) * (b[1] \div g2), (a[2] \div g2) * (b[2] \div g1))

\* a / b: raises when b is zero
Div(a, b) ==
  IF Raised(a) \/ Raised(b) \/ b[1] = 0 THEN ZeroDivisionError
  ELSE Mul(a, IF b[1] < 0 THEN <<-b[2], -b[1]>> ELSE <<b[2], b[1]>>)

\* a <= b, a < b on numbers (neither operand raised)
Leq(a, b) ==
  LET g == GCD(a[2], b[2])
  IN  a[1] * (b[2] \div g) <= b[1] * (a[2] \div g)

Lt(a, b) ==
  LET g == GCD(a[2], b[2])
  IN  a[1] * (b[2] \div g) < b[1] * (a[2] \div g)

\* min(a, b) as Python's builtin: b only when b < a
Min(a, b) == IF Lt(b, a) THEN b ELSE a

\* one step of the long division of r by d (0 <= r < d): <<digit, remainder>>
\* of 10 * r, computed without forming 10 * r
DecimalDigit(r, d) ==
  LET dq == d \div 10
      dm == d % 10
      Fits(k) == k * dq + ((k * dm) \div 10)
                   + (IF (k * dm) % 10 > 0 THEN 1 ELSE 0) <= r
      k == CHOOSE j \in 0 .. 9 : Fits(j) /\ (j = 9 \/ ~Fits(j + 1))
  IN  <<k, 10 * (r - k * dq - ((k * dm) \div 10)) - ((k * dm) % 10)>>

\* f"{x:.2f}": the sign and the hundredths of x rounded half to even
\* ("-0.00" keeps its sign, so the sign is part of the text)
Fmt2(x) ==
  LET n == Abs(x[1])
      d == x[2]
      t == DecimalDigit(n % d, d)
      h == DecimalDigit(t[2], d)
      fl == (n \div d) * 100 + t[1] * 10 + h[1]
      up == (h[2] > d - h[2]) \/ (h[2] = d - h[2] /\ fl % 2 = 1)
  IN  [neg |-> x[1] < 0, cents |-> IF up THEN fl + 1 ELSE fl]

(***************************************************************************)
(* MarginPosition                                                          *)
(***************************************************************************)
\* a local that has not been assigned yet
Unset == <<>>

\* no instance
NoPosition ==
  [amount |-> Unset, ltv |-> Unset, leverage |-> Unset,
   collateral_rate |-> Unset, borrow_rate |-> Unset]

\* the dataclass-generated __init__: stores the five fields, checks nothing
MarginPosition(a, l, lev, cr, br) ==
  [amount |-> a, ltv |-> l, leverage |-> lev,
   collateral_rate |-> cr, borrow_rate |-> br]

\* numerator and denominator exchanged
max_leverage_inverted(self) == Div(Sub(Num(1), self.ltv), Num(1))

max_leverage(self) == Div(Num(1), Sub(Num(1), self.ltv))

collateral(self) == self.amount

\* the parentheses around leverage - 1 dropped
borrow_unparenthesised(self) == Sub(Mul(self.amount, self.leverage), Num(1))

borrow(self) == Mul(self.amount, Sub(self.leverage, Num(1)))

\* the borrowed funds subtracted instead of added
deposit_minus(self) == Sub(collateral(self), borrow(self))

deposit(self) == Add(collateral(self), borrow(self))

\* the yield taken on the leveraged deposit
net_apy_on_deposit(self) ==
  Mul(Div(Sub(Mul(Mul(self.collateral_rate, collateral(self)), self.leverage),
              Mul(self.borrow_rate, borrow(self))),
          deposit(self)),
      Num(100))

net_apy(self) ==
  Mul(Div(Sub(Mul(Mul(self.collateral_rate, collateral(self)), self.leverage),
              Mul(self.borrow_rate, borrow(self))),
          collateral(self)),
      Num(100))

\* the borrowing cost added instead of subtracted
annual_earnings_plus(self) ==
  Add(Mul(Mul(self.collateral_rate, collateral(self)), self.leverage),
      Mul(self.borrow_rate, borrow(self)))

annual_earnings(self) ==
  Sub(Mul(Mul(self.collateral_rate, collateral(self)), self.leverage),
      Mul(self.borrow_rate, borrow(self)))

monthly_earnings(self) == Div(annual_earnings(self), Num(12))

daily_earnings(self) == Div(annual_earnings(self), Num(365))

(***************************************************************************)
(* Initial state: nothing has run, no local is assigned                    *)
(***************************************************************************)
NoReadings ==
  [max_leverage |-> Unset, collateral |-> Unset, borrow |-> Unset,
   deposit |-> Unset, net_apy |-> Unset, annual_earnings |-> Unset,
   monthly_earnings |-> Unset, daily_earnings |-> Unset]

Init ==
  /\ pc = "start"
  /\ amount = Unset
  /\ ltv = Unset
  /\ max_lev = Unset
  /\ leverage = Unset
  /\ collateral_rate = Unset
  /\ borrow_rate = Unset
  /\ position = NoPosition
  /\ metrics = <<>>
  /\ leverages = <<>>
  /\ i = 0
  /\ test_pos = NoPosition
  /\ sensitivity_data = <<>>
  /\ df = <<>>
  /\ out = NoReadings
  /\ error = ""

(***************************************************************************)
(* The class used directly: a caller passes any five numbers to the        *)
(* constructor and then reads every derived accessor.                      *)
(***************************************************************************)
LibAmounts == {Num(k) : k \in -1 .. LibMaxAmount} \cup {Num(100)}

LibLtvs == {Rat(k, LibLtvDen) : k \in -1 .. LibLtvDen + 1}

LibLeverages == {Rat(k, 2) : k \in 0 .. LibLevHalves} \cup {Num(5), Num(6)}

LibRates ==
  {Rat(-1, 100), Rat(1376, 10000), Rat(1097, 10000)}
    \cup {Rat(k, LibRateDen) : k \in 0 .. LibRateDen}

\* the caller picks the five arguments
LibCall ==
  /\ pc = "start"
  /\ amount' \in LibAmounts
  /\ ltv' \in LibLtvs
  /\ leverage' \in LibLeverages
  /\ collateral_rate' \in LibRates
  /\ borrow_rate' \in LibRates
  /\ pc' = "called"
  /\ UNCHANGED <<max_lev, position, metrics, leverages, i, test_pos,
                 sensitivity_data, df, out, error>>

\* MarginPosition(amount, ltv, leverage, collateral_rate, borrow_rate)
LibConstruct ==
  /\ pc = "called"
  /\ position' = MarginPosition(amount, ltv, leverage, collateral_rate, borrow_rate)
  /\ pc' = "made"
  /\ UNCHANGED <<amount, ltv, max_lev, leverage, collateral_rate, borrow_rate,
                 metrics, leverages, i, test_pos, sensitivity_data, df, out, error>>

\* the eight property reads on an instance; a read that raises leaves the
\* exception in its slot
Readings(self) ==
  [max_leverage |-> max_leverage(self), collateral |-> collateral(self),
   borrow |-> borrow(self), deposit |-> deposit(self),
   net_apy |-> net_apy(self), annual_earnings |-> annual_earnings(self),
   monthly_earnings |-> monthly_earnings(self),
   daily_earnings |-> daily_earnings(self)]

AnyRaised(r) ==
  \/ Raised(r.max_leverage) \/ Raised(r.collateral) \/ Raised(r.borrow)
  \/ Raised(r.deposit) \/ Raised(r.net_apy) \/ Raised(r.annual_earnings)
  \/ Raised(r.monthly_earnings) \/ Raised(r.daily_earnings)

LibRead ==
  /\ pc = "made"
  /\ out' = Readings(position)
  /\ error' = IF AnyRaised(out') THEN "ZeroDivisionError" ELSE error
  /\ pc' = "read"
  /\ UNCHANGED <<amount, ltv, max_lev, leverage, collateral_rate, borrow_rate,
                 position, metrics, leverages, i, test_pos, sensitivity_data, df>>

LibNext == LibCall \/ LibConstruct \/ LibRead

LibSpec == Init /\ [][LibNext]_vars

(***************************************************************************)
(* main(): the values the widgets can return                               *)
(***************************************************************************)
\* st.number_input("Amount", min_value=1.0, value=100.0, step=10.0)
AmountWidget == {Num(1 + 10 * k) : k \in 0 .. AmountSteps} \cup {Num(100)}

\* st.number_input("LTV", min_value=0.1, max_value=0.95, value=0.8, step=0.05)
LtvWidget ==
  {x \in {Rat(80 + 5 * k, 100) : k \in -LtvSteps .. LtvSteps} :
      Leq(Rat(1, 10), x) /\ Leq(x, Rat(95, 100))}
    \cup {Rat(1, 10), Rat(95, 100)}

\* st.number_input("Leverage", min_value=1.0, max_value=float(max_lev),
\*                 value=min(5.0, max_lev), step=0.1)
LeverageWidget(maxlev) ==
  {x \in {Sub(Min(Num(5), maxlev), Rat(k, 10)) : k \in 0 .. LevSteps} :
      Leq(Num(1), x) /\ Leq(x, maxlev)}
    \cup {Num(1), maxlev}

\* st.number_input(..., min_value=0.0, max_value=100.0, value=default, step=0.01):
\* the percentage the widget returns, default given in hundredths of a percent
RateWidget(default) ==
  {x \in {Rat(default + k, 100) : k \in -RateSteps .. RateSteps} :
      Leq(Num(0), x) /\ Leq(x, Num(100))}
    \cup {Num(0), Num(100)}

(***************************************************************************)
(* main(): the steps of the script                                         *)
(***************************************************************************)
\* with c1: amount and ltv
InputsC1 ==
  /\ pc = "start"
  /\ amount' \in AmountWidget
  /\ ltv' \in LtvWidget
  /\ pc' = "c2"
  /\ UNCHANGED <<max_lev, leverage, collateral_rate, borrow_rate, position,
                 metrics, leverages, i, test_pos, sensitivity_data, df, out, error>>

\* with c2: max_lev = 1 / (1 - ltv), then the leverage widget bounded by it
InputsC2 ==
  /\ pc = "c2"
  /\ max_lev' = Div(Num(1), Sub(Num(1), ltv))
  /\ IF Raised(max_lev')
       THEN /\ pc' = "crashed"
            /\ error' = "ZeroDivisionError"
            /\ UNCHANGED leverage
       ELSE /\ leverage' \in LeverageWidget(max_lev')
            /\ pc' = "c3"
            /\ UNCHANGED error
  /\ UNCHANGED <<amount, ltv, collateral_rate, borrow_rate, position, metrics,
                 leverages, i, test_pos, sensitivity_data, df, out>>

\* with c3: both rates, entered in percent and divided by 100
InputsC3 ==
  /\ pc = "c3"
  /\ \E w \in RateWidget(1376) : collateral_rate' = Div(w, Num(100))
  /\ \E w \in RateWidget(1097) : borrow_rate' = Div(w, Num(100))
  /\ pc' = "construct"
  /\ UNCHANGED <<amount, ltv, max_lev, leverage, position, metrics, leverages,
                 i, test_pos, sensitivity_data, df, out, error>>

\* position = MarginPosition(amount=amount, ltv=ltv, ...)
Construct ==
  /\ pc = "construct"
  /\ position' = MarginPosition(amount, ltv, leverage, collateral_rate, borrow_rate)
  /\ pc' = "metrics"
  /\ UNCHANGED <<amount, ltv, max_lev, leverage, collateral_rate, borrow_rate,
                 metrics, leverages, i, test_pos, sensitivity_data, df, out, error>>

\* the nine st.metric texts, in the order they are evaluated
MetricTexts(self) ==
  [TotalPosition |-> Fmt2(deposit(self)),
   InitialAmount |-> Fmt2(collateral(self)),
   Borrowed |-> Fmt2(borrow(self)),
   NetAPY |-> Fmt2(net_apy(self)),
   CollateralRate |-> Fmt2(Mul(self.collateral_rate, Num(100))),
   BorrowRate |-> Fmt2(Mul(self.borrow_rate, Num(100))),
   EarningsYear |-> Fmt2(annual_earnings(self)),
   EarningsMonth |-> Fmt2(monthly_earnings(self)),
   EarningsDay |-> Fmt2(daily_earnings(self))]

\* the key metrics: every accessor but max_leverage is read and formatted
ShowMetrics ==
  /\ pc = "metrics"
  /\ IF AnyRaised(Readings(position))
       THEN /\ pc' = "crashed"
            /\ error' = "ZeroDivisionError"
            /\ UNCHANGED metrics
       ELSE /\ metrics' = MetricTexts(position)
            /\ pc' = "menu"
            /\ UNCHANGED error
  /\ UNCHANGED <<amount, ltv, max_lev, leverage, collateral_rate, borrow_rate,
                 position, leverages, i, test_pos, sensitivity_data, df, out>>

\* leverages = [1.0, 2.0, 3.0, 4.0, 5.0, position.max_leverage]
DefaultLeverages(self) ==
  <<Num(1), Num(2), Num(3), Num(4), Num(5), max_leverage(self)>>

\* leverages = [...]; sensitivity_data = []
BuildMenu ==
  /\ pc = "menu"
  /\ leverages' = DefaultLeverages(position)
  /\ sensitivity_data' = <<>>
  /\ i' = 1
  /\ pc' = "loop"
  /\ UNCHANGED <<amount, ltv, max_lev, leverage, collateral_rate, borrow_rate,
                 position, metrics, test_pos, df, out, error>>

\* the comparison made strict
Feasible_strict(lev, self) == Lt(lev, max_leverage(self))

\* the filter left out
Feasible_always(lev, self) == TRUE

\* if lev <= position.max_leverage

Feasible(lev, self) == Leq(lev, max_leverage(self))

\* the leveraged deposit passed as the amount
MakeTestPos_scaled(self, lev) ==
  MarginPosition(deposit(self), self.ltv, lev, self.collateral_rate,
                 self.borrow_rate)

\* test_pos = MarginPosition(amount=position.amount, ltv=position.ltv,
\*                           leverage=lev, ...)
MakeTestPos(self, lev) ==
  MarginPosition(self.amount, self.ltv, lev, self.collateral_rate,
                 self.borrow_rate)

\* the dict appended for one candidate
Row(lev, tp) ==
  [Leverage |-> Fmt2(lev),
   PositionSize |-> Fmt2(deposit(tp)),
   NetAPY |-> Fmt2(net_apy(tp)),
   Annual |-> Fmt2(annual_earnings(tp)),
   Monthly |-> Fmt2(monthly_earnings(tp)),
   Daily |-> Fmt2(daily_earnings(tp))]

\* the row inserted at the front
AppendRow_front(data, row) == <<row>> \o data

\* sensitivity_data.append(row)
AppendRow(data, row) == Append(data, row)

\* one iteration whose candidate passes the filter
LoopInclude ==
  /\ pc = "loop"
  /\ i <= Len(leverages)
  /\ Feasible(leverages[i], position)
  /\ test_pos' = MakeTestPos(position, leverages[i])
  /\ IF AnyRaised(Readings(test_pos'))
       THEN /\ pc' = "crashed"
            /\ error' = "ZeroDivisionError"
            /\ UNCHANGED <<sensitivity_data, i>>
       ELSE /\ sensitivity_data' =
                 AppendRow(sensitivity_data, Row(leverages[i], test_pos'))
            /\ i' = i + 1
            /\ UNCHANGED <<pc, error>>
  /\ UNCHANGED <<amount, ltv, max_lev, leverage, collateral_rate, borrow_rate,
                 position, metrics, leverages, df, out>>

\* one iteration whose candidate exceeds position.max_leverage
LoopSkip ==
  /\ pc = "loop"
  /\ i <= Len(leverages)
  /\ ~Feasible(leverages[i], position)
  /\ i' = i + 1
  /\ UNCHANGED <<pc, amount, ltv, max_lev, leverage, collateral_rate,
                 borrow_rate, position, metrics, leverages, test_pos,
                 sensitivity_data, df, out, error>>

\* df = pd.DataFrame(sensitivity_data); st.dataframe(df, ...)
Display ==
  /\ pc = "loop"
  /\ i > Len(leverages)
  /\ df' = sensitivity_data
  /\ pc' = "done"
  /\ UNCHANGED <<amount, ltv, max_lev, leverage, collateral_rate, borrow_rate,
                 position, metrics, leverages, i, test_pos, sensitivity_data,
                 out, error>>

Next ==
  \/ InputsC1 \/ InputsC2 \/ InputsC3 \/ Construct \/ ShowMetrics
  \/ BuildMenu \/ LoopInclude \/ LoopSkip \/ Display

Spec == Init /\ [][Next]_vars

(***************************************************************************)
(* Properties                                                              *)
(***************************************************************************)
\* the input invariants of a position: amount > 0, 0 < ltv < 1,
\* 1 <= leverage <= 1 / (1 - ltv), both rates >= 0
Valid(p) ==
  /\ Lt(Num(0), p.amount)
  /\ Lt(Num(0), p.ltv)
  /\ Lt(p.ltv, Num(1))
  /\ Leq(Num(1), p.leverage)
  /\ Leq(p.leverage, Div(Num(1), Sub(Num(1), p.ltv)))
  /\ Leq(Num(0), p.collateral_rate)
  /\ Leq(Num(0), p.borrow_rate)

\* the constructor has returned for the five arguments of this call
Constructed == pc \in {"made", "read"}

\* every accessor of the instance has been read
ReadDone == pc = "read"

\* C1: a constructor call whose arguments violate an input invariant fails
\* with InvalidInput and yields no instance.
C1_InvalidInputRejected ==
  (Constructed
     /\ ~Valid(MarginPosition(amount, ltv, leverage, collateral_rate, borrow_rate)))
    => (error = "InvalidInput" /\ position = NoPosition)

\* C2: the sensitivity rows built so far are exactly the candidates already
\* visited that do not exceed the base's max leverage, one row each, in the
\* candidates' order; a candidate above the bound is dropped without an error.
C2_RowsAreFilteredCandidates ==
  pc \in {"loop", "done"} =>
    LET bound == Div(Num(1), Sub(Num(1), position.ltv))
        Keep(L) == Leq(L, bound)
        kept == SelectSeq(SubSeq(leverages, 1, i - 1), Keep)
    IN  /\ error = ""
        /\ Len(sensitivity_data) = Len(kept)
        /\ \A k \in 1 .. Len(kept) : sensitivity_data[k].Leverage = Fmt2(kept[k])
        /\ pc = "done" => (i = Len(leverages) + 1 /\ df = sensitivity_data)

C2_Witness ==
  /\ pc = "done"
  /\ Len(df) = 3
  /\ Len(leverages) = 6
  /\ df[3].Leverage # df[2].Leverage

\* C3: with the default menu the finished table is never empty: its first row
\* is the row of leverage 1 and its last row is the row of the base's own
\* max leverage, built from a position with exactly that leverage.
C3_MenuNeverEmpty ==
  pc = "done" =>
    LET bound == Div(Num(1), Sub(Num(1), position.ltv))
    IN  /\ Len(df) >= 1
        /\ df[1].Leverage = Fmt2(Num(1))
        /\ df[Len(df)].Leverage = Fmt2(bound)
        /\ test_pos.leverage = bound

C3_Witness ==
  /\ pc = "done"
  /\ position.ltv = Rat(4, 5)
  /\ Len(df) = 6
  /\ df[5].Leverage = df[6].Leverage

\* C4: two valid positions that differ only in leverage, L1 < L2: the annual
\* earnings at L2 are strictly greater when collateral_rate > borrow_rate and
\* strictly smaller when collateral_rate < borrow_rate.
C4_EarningsMonotoneInLeverage ==
  (ReadDone /\ Valid(position)) =>
    \A L2 \in LibLeverages :
      LET other == [position EXCEPT !.leverage = L2]
      IN  (Lt(position.leverage, L2) /\ Valid(other)) =>
            /\ Lt(position.borrow_rate, position.collateral_rate)
                 => Lt(out.annual_earnings, annual_earnings(other))
            /\ Lt(position.collateral_rate, position.borrow_rate)
                 => Lt(annual_earnings(other), out.annual_earnings)

C4_Witness ==
  /\ ReadDone
  /\ Valid(position)
  /\ Lt(position.collateral_rate, position.borrow_rate)
  /\ \E L2 \in LibLeverages :
       /\ Lt(position.leverage, L2)
       /\ Valid([position EXCEPT !.leverage = L2])
       /\ Lt(annual_earnings([position EXCEPT !.leverage = L2]), Num(0))

\* C5: a valid position with leverage 1 borrows nothing, deposits its amount,
\* earns collateral_rate * amount a year and has net_apy = collateral_rate * 100,
\* whatever the borrow rate.
C5_LeverageOne ==
  (ReadDone /\ Valid(position) /\ position.leverage = Num(1)) =>
    /\ out.borrow = Num(0)
    /\ out.deposit = position.amount
    /\ out.annual_earnings = Mul(position.collateral_rate, position.amount)
    /\ out.net_apy = Mul(position.collateral_rate, Num(100))

C5_Witness ==
  /\ ReadDone
  /\ Valid(position)
  /\ position.leverage = Num(1)
  /\ position.amount = Num(100)
  /\ Lt(Num(0), position.borrow_rate)
  /\ Lt(Num(0), position.collateral_rate)

\* C6: for a valid position collateral = amount, borrow = amount * (leverage - 1),
\* deposit = collateral + borrow = amount * leverage, and borrow >= 0.
C6_DepositIdentity ==
  (ReadDone /\ Valid(position)) =>
    /\ out.collateral = position.amount
    /\ out.borrow = Sub(Mul(position.amount, position.leverage), position.amount)
    /\ out.deposit = Add(out.collateral, out.borrow)
    /\ out.deposit = Mul(position.amount, position.leverage)
    /\ Leq(Num(0), out.borrow)

C6_Witness ==
  /\ ReadDone
  /\ Valid(position)
  /\ Lt(Num(1), position.leverage)
  /\ Lt(Num(1), position.amount)

\* C7: for a valid position net_apy = annual_earnings / collateral * 100 with
\* annual_earnings = collateral_rate * collateral * leverage - borrow_rate * borrow:
\* the yield is on the original deposit, not on the leveraged one.
C7_NetApyOnCollateral ==
  (ReadDone /\ Valid(position)) =>
    /\ out.net_apy = Mul(Div(out.annual_earnings, out.collateral), Num(100))
    /\ out.annual_earnings =
         Sub(Mul(Mul(position.collateral_rate, position.amount), position.leverage),
             Mul(position.borrow_rate,
                 Mul(position.amount, Sub(position.leverage, Num(1)))))
    /\ (Lt(Num(1), position.leverage) /\ out.annual_earnings # Num(0))
         => out.net_apy # Mul(Div(out.annual_earnings, out.deposit), Num(100))

C7_Witness ==
  /\ ReadDone
  /\ Valid(position)
  /\ Lt(Num(1), position.leverage)
  /\ Lt(Num(0), position.borrow_rate)
  /\ out.annual_earnings # Num(0)

C9_BaseNeverMutated ==
  [][/\ position # NoPosition => position' = position
     /\ Len(sensitivity_data') > Len(sensitivity_data) =>
          /\ test_pos'.amount = position.amount
          /\ test_pos'.ltv = position.ltv
          /\ test_pos'.collateral_rate = position.collateral_rate
          /\ test_pos'.borrow_rate = position.borrow_rate
          /\ test_pos'.leverage = leverages[i]
          /\ sensitivity_data'[Len(sensitivity_data')].PositionSize
               = Fmt2(Mul(position.amount, leverages[i]))]_vars

C9_Witness ==
  /\ pc = "done"
  /\ Len(df) >= 3
  /\ test_pos.leverage # position.leverage
  /\ position = MarginPosition(amount, ltv, leverage, collateral_rate, borrow_rate)

\* C10: every position main builds from widget values, the base and the one
\* behind each row, satisfies the input invariants, and the rows' leverages
\* are non-decreasing in row order.
C10_WidgetBoundsGiveValidPositions ==
  /\ position # NoPosition => Valid(position)
  /\ test_pos # NoPosition => Valid(test_pos)
  /\ \A k \in 1 .. Len(sensitivity_data) - 1 :
       sensitivity_data[k].Leverage.cents <= sensitivity_data[k + 1].Leverage.cents

C10_Witness ==
  /\ pc = "done"
  /\ Len(df) = 4
  /\ position.leverage = test_pos.leverage
  /\ position.ltv = Rat(95, 100) \/ position.ltv = Rat(7, 10)

====
